---- MODULE Spec2Model ----
(***************************************************************************)
(* A state-machine model of train_wgan_encoder.py: main() with its two     *)
(* modes (the training loop and the inference-only distance evaluation),   *)
(* train(), evaluate(), and the ReduceLROnPlateau scheduler the script     *)
(* builds and steps.                                                       *)
(*                                                                         *)
(* Numbers.  A float is a record: nan = TRUE stands for any non-finite     *)
(* value (nan or inf); a finite value is the rational num/den.  Losses are *)
(* counted in units of the scheduler's threshold (1e-4).  The learning     *)
(* rate is counted in units of 1e-3 / 2^20, so that the configured 1e-3 is *)
(* 2^20 and halving is exact, as it is in binary floating point.           *)
(***************************************************************************)
EXTENDS Integers, Sequences, FiniteSets, TLC

\* ------------------------------------------------------------------ bounds
MaxEpochs == 3          \* epochs of a short run
MaxPeriod == 2          \* ckpt_period of a short run
MaxBatch == 2           \* batch_size
MaxTrain == 2           \* samples of the training split
MaxSamples == 3         \* samples of the validation (known) and of the unknown split
MaxValSched == 2        \* validation samples of a scheduler run
MaxLoss == 2            \* the largest finite batch loss, in threshold units
MaxEpochsSched == 12    \* epochs of a run long enough for the scheduler to act
MinEpochsLong == 99     \* epochs of a run around the tag the inference run loads
MaxEpochsLong == 101
MaxPeriodLong == 26

\* ------------------------------------------------------- program constants
LearningRate == 1048576 \* "learning_rate": 1e-3, in units of 1e-3 / 2^20
FactorNum == 1          \* factor=0.5
FactorDen == 2
Patience == 10          \* patience=10
Threshold == 1          \* threshold (default 1e-4), the unit of the losses
MinLr == 0              \* min_lr (default 0)
Eps == 10               \* eps (default 1e-8) = 10.48 units: for the integer
                        \* differences of the model, d > eps iff d > 10

\* ----------------------------------------------------------------- floats
Fin(n) == [nan |-> FALSE, num |-> n, den |-> 1]
NonFinite == [nan |-> TRUE, num |-> 0, den |-> 1]

Min(a, b) == IF a < b THEN a ELSE b
Max(a, b) == IF a > b THEN a ELSE b

RECURSIVE SumSeq(_)
\* sum(xs) of a list of floats with denominator 1
SumSeq(xs) ==
    IF xs = <<>> THEN Fin(0)
    ELSE LET r == SumSeq(Tail(xs))
         IN  IF Head(xs).nan \/ r.nan THEN NonFinite
             ELSE Fin(Head(xs).num + r.num)

\* sum(xs) / len(xs): the caller has checked len(xs) # 0
MeanOf(xs) ==
    LET s == SumSeq(xs)
    IN  IF s.nan THEN NonFinite ELSE [nan |-> FALSE, num |-> s.num, den |-> Len(xs)]

RECURSIVE SumOver(_, _)
\* the sum of f[s] for s in S
SumOver(f, S) ==
    IF S = {} THEN 0
    ELSE LET s == CHOOSE x \in S : TRUE
         IN  f[s] + SumOver(f, S \ {s})

\* ------------------------------------------------------------------ state
VARIABLES
    config,        \* wandb.config: vis_only, epochs, ckpt_period, batch_size, learning_rate
    data,          \* len() of split_train_set, split_val_test and unk_vis_set
    env,           \* what the data can produce: the finite batch losses, whether a
                   \* loss can be non-finite, whether fetching a batch can raise
    disk,          \* ckpt_path: epoch tag -> the encoder pickled under that tag
    pc,            \* the position of main()
    error,         \* the exception that ended the run, "" if none
    i,             \* the epoch index of the loop at line 155
    encoder,       \* version: the optimizer steps its parameters went through;
                   \* nan: they are non-finite; requires_grad; training: the mode
    generator,     \* the same of G (and D), and whether the weights are loaded
    freezes,       \* how often the loop at lines 109-110 has run
    grad_enabled,  \* torch's gradient mode (torch.no_grad() clears it)
    lr,            \* optimizer.param_groups[0]['lr']
    scheduler,     \* best, num_bad_epochs, last_epoch of ReduceLROnPlateau
    rest,          \* the samples the loader being iterated has not served yet
    train_loss,    \* train()'s list of batch losses
    eval_losses,   \* evaluate()'s list of batch losses
    val_loss,      \* evaluate()'s result
    metrics,       \* the records passed to wandb.log, in order: of an epoch's
                   \* record, the epoch and the learning rate (the two mean
                   \* losses and the image are left out)
    files,         \* the images written under out_path
    saves,         \* the tags of this run's torch.save calls, in order
    fwd,           \* the forward passes made: the place and the gradient mode
    dist,          \* known_l1, known_l2, unk_l1, unk_l2
    served,        \* per split, how often each sample entered a distance sum
    run_atleast,   \* history: the latest consecutive epochs whose validation loss
                   \* did not improve on scheduler.best by at least the threshold
    run_morethan   \* history: the same, for "by more than the threshold"

vars == <<config, data, env, disk, pc, error, i, encoder, generator, freezes,
          grad_enabled, lr, scheduler, rest, train_loss, eval_losses, val_loss,
          metrics, files, saves, fwd, dist, served, run_atleast, run_morethan>>

world == <<data, env>>
nets == <<encoder, generator, freezes>>
optim == <<lr, scheduler, run_atleast, run_morethan>>
lists == <<train_loss, eval_losses, val_loss>>
sinks == <<metrics, files, saves>>
sums == <<dist, served>>

\* Encoder() at line 103: fresh parameters, a module starts in training mode
NewEncoder == [version |-> 0, nan |-> FALSE, requires_grad |-> TRUE, training |-> TRUE]
\* WGAN_GP(config) at line 104, before load_model
NewGenerator == [loaded |-> FALSE, version |-> 0, nan |-> FALSE, requires_grad |-> TRUE,
                 training |-> TRUE]
\* ReduceLROnPlateau(...) at line 114: best = inf, no bad epoch, last_epoch = 0
NewScheduler == [best |-> [inf |-> TRUE, num |-> 0, den |-> 1],
                 num_bad_epochs |-> 0, last_epoch |-> 0]
ZeroDist == [known_l1 |-> Fin(0), known_l2 |-> Fin(0), unk_l1 |-> Fin(0), unk_l2 |-> Fin(0)]
NoFiles == [t \in {} |-> NewEncoder]

\* the state of a process that has just entered main()
Started ==
    /\ pc = "start"
    /\ error = ""
    /\ i = 0
    /\ encoder = NewEncoder
    /\ generator = NewGenerator
    /\ freezes = 0
    /\ grad_enabled = TRUE
    /\ lr = 0
    /\ scheduler = NewScheduler
    /\ rest = {}
    /\ train_loss = <<>>
    /\ eval_losses = <<>>
    /\ val_loss = Fin(0)
    /\ metrics = <<>>
    /\ saves = <<>>
    /\ fwd = {}
    /\ dist = ZeroDist
    /\ served = [known |-> [s \in 1..data.val |-> 0], unk |-> [s \in 1..data.unk |-> 0]]
    /\ run_atleast = 0
    /\ run_morethan = 0

\* a checkpoint tag that follows the configuration: the last epoch's
FinalTag == config.epochs

\* line 122: "ckpt100.pth", the checkpoint an inference-only run loads
InferTag == 100

Configs(modes, epochs, periods, batches) ==
    [vis_only : modes, epochs : epochs, ckpt_period : periods,
     batch_size : batches, learning_rate : {LearningRate}]

\* short runs in either mode, over every small split, with every disturbance; the
\* checkpoint directory is empty or holds the checkpoint an inference run loads
Init ==
    /\ config \in Configs(BOOLEAN, 1..MaxEpochs, 1..MaxPeriod, 1..MaxBatch)
    /\ data \in [train : 0..MaxTrain, val : 0..MaxSamples, unk : 0..MaxSamples]
    /\ env = [train_losses |-> {1}, val_losses |-> {1},
              nonfinite |-> TRUE, faults |-> TRUE]
    /\ disk \in {NoFiles,
                 [t \in {InferTag} |-> [NewEncoder EXCEPT !.version = 1, !.training = FALSE]]}
    /\ files = {}
    /\ Started

\* training runs long enough for the scheduler to reduce the learning rate
InitSched ==
    /\ config \in Configs({FALSE}, {MaxEpochsSched}, {MaxPeriod}, {1})
    /\ data \in [train : {1}, val : 1..MaxValSched, unk : {1}]
    /\ env = [train_losses |-> {1}, val_losses |-> 0..MaxLoss,
              nonfinite |-> TRUE, faults |-> FALSE]
    /\ disk = NoFiles
    /\ files = {}
    /\ Started

\* undisturbed training runs of as many epochs, over a validation loss that
\* never improves after the first epoch
InitOrder ==
    /\ config \in Configs({FALSE}, {MaxEpochsSched}, 1..MaxPeriod, {1})
    /\ data \in [train : 1..MaxTrain, val : 1..MaxValSched, unk : {1}]
    /\ env = [train_losses |-> {1}, val_losses |-> {1},
              nonfinite |-> FALSE, faults |-> FALSE]
    /\ disk = NoFiles
    /\ files = {}
    /\ Started

\* undisturbed training runs, short ones and ones around InferTag epochs, each
\* followed by an inference-only run over the same checkpoint directory
InitLong ==
    /\ config \in Configs({FALSE}, (1..MaxEpochs) \cup (MinEpochsLong..MaxEpochsLong),
                          1..MaxPeriodLong, {1})
    /\ data = [train |-> 1, val |-> 1, unk |-> 1]
    /\ env = [train_losses |-> {1}, val_losses |-> {1},
              nonfinite |-> FALSE, faults |-> FALSE]
    /\ disk = NoFiles
    /\ files = {}
    /\ Started

\* an exception leaves main(): nothing else changes
Raise(e) ==
    /\ pc' = "failed"
    /\ error' = e

\* ---------------------------------------------------------------- loaders
LoaderHasNextDropLast(r, b) == Cardinality(r) >= b

\* DataLoader(..., batch_size=b) keeps a partial last batch (drop_last=False)
LoaderHasNext(r, b) == r # {}

\* the batches a loader may serve next: any samples when it shuffles, the first
\* ones when it does not
Batches(r, b, shuffle) ==
    LET n == Min(b, Cardinality(r))
    IN  IF shuffle THEN {S \in SUBSET r : Cardinality(S) = n}
        ELSE {{s \in r : Cardinality({t \in r : t < s}) < n}}

\* the losses a forward pass can produce: non-finite once the encoder is
FloatLosses(finite) ==
    IF encoder.nan THEN {NonFinite}
    ELSE {Fin(v) : v \in finite} \cup (IF env.nonfinite THEN {NonFinite} ELSE {})

Forward(site) == fwd \cup {[site |-> site, grad |-> grad_enabled]}

\* ------------------------------------------------------------------ setup
\* lines 84-100: the configuration, the datasets and the two loaders.  A shuffling
\* loader over an empty dataset is refused by RandomSampler in the torch releases
\* that check num_samples > 0, and built by the others.
Prepare ==
    /\ pc = "start"
    /\ \E refused \in IF data.train = 0 THEN BOOLEAN ELSE {FALSE} :
          IF refused THEN Raise("ValueError")
          ELSE pc' = "load_model" /\ error' = error
    /\ UNCHANGED <<config, world, disk, i, nets, grad_enabled, optim, rest, lists,
                   sinks, fwd, sums>>

\* lines 103-107: the encoder, the generator and its pretrained weights
LoadModel ==
    /\ pc = "load_model"
    /\ encoder' = NewEncoder
    /\ generator' = [NewGenerator EXCEPT !.loaded = TRUE]
    /\ pc' = "freeze"
    /\ UNCHANGED <<config, world, disk, error, i, freezes, grad_enabled, optim, rest,
                   lists, sinks, fwd, sums>>

NotFrozenFlag == TRUE

\* line 110: the value requires_grad is set to
FrozenFlag == FALSE

\* lines 109-110: G's and D's parameters stop requiring gradients
Freeze ==
    /\ pc = "freeze"
    /\ generator' = [generator EXCEPT !.requires_grad = FrozenFlag]
    /\ freezes' = freezes + 1
    /\ pc' = "optim"
    /\ UNCHANGED <<config, world, disk, error, i, encoder, grad_enabled, optim, rest,
                   lists, sinks, fwd, sums>>

\* lines 112-121: the loss, Adam over the encoder's parameters, the scheduler,
\* the directories, and the branch on vis_only
BuildOptimizer ==
    /\ pc = "optim"
    /\ lr' = config.learning_rate
    /\ scheduler' = NewScheduler
    /\ pc' = IF config.vis_only THEN "load_ckpt" ELSE "for"
    /\ UNCHANGED <<config, world, disk, error, i, nets, grad_enabled, run_atleast,
                   run_morethan, rest, lists, sinks, fwd, sums>>

\* --------------------------------------------------------------- training
\* lines 155-156 and 30-32: the loop enters epoch i and train() starts
TrainBegin ==
    /\ pc = "for"
    /\ i < config.epochs
    /\ encoder' = [encoder EXCEPT !.training = TRUE]
    /\ generator' = [generator EXCEPT !.training = TRUE]
    /\ train_loss' = <<>>
    /\ rest' = 1..data.train
    /\ pc' = "train"
    /\ UNCHANGED <<config, world, disk, error, i, freezes, grad_enabled, optim,
                   eval_losses, val_loss, sinks, fwd, sums>>

\* line 113: the modules whose parameters Adam was given
Optimized == {"encoder"}

\* lines 38-39: backward() and optimizer.step(): Adam moves the parameters it was
\* given that received a gradient, those that require one; a non-finite loss
\* makes them non-finite
OptimizerStep(name, net, loss) ==
    IF name \in Optimized /\ net.requires_grad
    THEN [net EXCEPT !.version = @ + 1, !.nan = @ \/ loss.nan]
    ELSE net

\* lines 34-40: one batch of train()
TrainBatch ==
    /\ pc = "train"
    /\ LoaderHasNext(rest, config.batch_size)
    /\ \E batch \in Batches(rest, config.batch_size, TRUE) :
       \E raised \in IF env.faults THEN BOOLEAN ELSE {FALSE} :
       \E loss \in FloatLosses(env.train_losses) :
          IF raised
          THEN /\ Raise("RuntimeError")
               /\ UNCHANGED <<rest, fwd, encoder, generator, train_loss>>
          ELSE /\ rest' = rest \ batch
               /\ fwd' = Forward("train")
               /\ encoder' = OptimizerStep("encoder", encoder, loss)
               /\ generator' = OptimizerStep("generator", generator, loss)
               /\ train_loss' = Append(train_loss, loss)
               /\ UNCHANGED <<pc, error>>
    /\ UNCHANGED <<config, world, disk, i, freezes, grad_enabled, optim,
                   eval_losses, val_loss, sinks, sums>>

\* lines 42, 157 and 46-50: train() returns and evaluate() starts, under no_grad
EvalBegin ==
    /\ pc = "train"
    /\ ~LoaderHasNext(rest, config.batch_size)
    /\ encoder' = [encoder EXCEPT !.training = FALSE]
    /\ generator' = [generator EXCEPT !.training = FALSE]
    /\ eval_losses' = <<>>
    /\ grad_enabled' = FALSE
    /\ rest' = 1..data.val
    /\ pc' = "eval"
    /\ UNCHANGED <<config, world, disk, error, i, freezes, optim, train_loss,
                   val_loss, sinks, fwd, sums>>

\* lines 51-54: one batch of evaluate(); an exception leaves the no_grad block
EvalBatch ==
    /\ pc = "eval"
    /\ LoaderHasNext(rest, config.batch_size)
    /\ \E batch \in Batches(rest, config.batch_size, FALSE) :
       \E raised \in IF env.faults THEN BOOLEAN ELSE {FALSE} :
       \E loss \in FloatLosses(env.val_losses) :
          IF raised
          THEN /\ Raise("RuntimeError")
               /\ grad_enabled' = TRUE
               /\ UNCHANGED <<rest, fwd, eval_losses>>
          ELSE /\ rest' = rest \ batch
               /\ fwd' = Forward("eval")
               /\ eval_losses' = Append(eval_losses, loss)
               /\ UNCHANGED <<pc, error, grad_enabled>>
    /\ UNCHANGED <<config, world, disk, i, nets, optim, train_loss, val_loss,
                   sinks, sums>>

AfterEvaluateLog == "log"

\* lines 157-158: what main() does with evaluate()'s result
AfterEvaluate == "sched"

\* line 56: sum(eval_losses) / len(eval_losses), outside the no_grad block
EvalReturn ==
    /\ pc = "eval"
    /\ ~LoaderHasNext(rest, config.batch_size)
    /\ grad_enabled' = TRUE
    /\ IF Len(eval_losses) = 0
       THEN /\ Raise("ZeroDivisionError")
            /\ UNCHANGED val_loss
       ELSE /\ val_loss' = MeanOf(eval_losses)
            /\ pc' = AfterEvaluate
            /\ UNCHANGED error
    /\ UNCHANGED <<config, world, disk, i, nets, optim, rest, train_loss,
                   eval_losses, sinks, fwd, sums>>

\* -------------------------------------------------------------- scheduler
\* ReduceLROnPlateau.is_better, mode="min", threshold_mode='abs':
\* a < best - threshold; no comparison with a non-finite a holds
IsBetter(a, best) ==
    /\ ~a.nan
    /\ \/ best.inf
       \/ a.num * best.den < (best.num - Threshold * best.den) * a.den

\* ReduceLROnPlateau.step: the learning rate is reduced when num_bad_epochs
\* exceeds patience
ShouldReduce(num_bad) == num_bad > Patience

ReduceLrTwice(old) ==
    LET new == Max((old * FactorNum * FactorNum) \div (FactorDen * FactorDen), MinLr)
    IN  IF old - new > Eps THEN new ELSE old

\* ReduceLROnPlateau._reduce_lr: new_lr = max(old_lr * factor, min_lr), applied
\* when old_lr - new_lr > eps
ReduceLr(old) ==
    LET new == Max((old * FactorNum) \div FactorDen, MinLr)
    IN  IF old - new > Eps THEN new ELSE old

\* a finite loss a is below best by at least the threshold
ImprovedAtLeast(a, best) ==
    /\ ~a.nan
    /\ \/ best.inf
       \/ best.num * a.den - a.num * best.den >= Threshold * a.den * best.den

\* a finite loss a is below best by more than the threshold
ImprovedMoreThan(a, best) ==
    /\ ~a.nan
    /\ \/ best.inf
       \/ best.num * a.den - a.num * best.den > Threshold * a.den * best.den

Longer(run) == Min(run + 1, Patience + 1)

\* line 158: scheduler.step(val_loss); cooldown is 0, so the scheduler is never
\* in cooldown
SchedulerStep ==
    /\ pc = "sched"
    /\ LET better == IsBetter(val_loss, scheduler.best)
           bad == IF better THEN 0 ELSE scheduler.num_bad_epochs + 1
           reduce == ShouldReduce(bad)
       IN  /\ scheduler' =
                [best |-> IF better
                          THEN [inf |-> FALSE, num |-> val_loss.num, den |-> val_loss.den]
                          ELSE scheduler.best,
                 num_bad_epochs |-> IF reduce THEN 0 ELSE bad,
                 last_epoch |-> scheduler.last_epoch + 1]
           /\ lr' = IF reduce THEN ReduceLr(lr) ELSE lr
    /\ run_atleast' = IF ImprovedAtLeast(val_loss, scheduler.best) THEN 0
                      ELSE Longer(run_atleast)
    /\ run_morethan' = IF ImprovedMoreThan(val_loss, scheduler.best) THEN 0
                       ELSE Longer(run_morethan)
    /\ pc' = "log"
    /\ UNCHANGED <<config, world, disk, error, i, nets, grad_enabled, rest, lists,
                   sinks, fwd, sums>>

\* ------------------------------------------------- logging, checkpointing
EpochRecordOneBased(e, rate) == [kind |-> "epoch", epoch |-> e + 1, lr |-> rate]

\* lines 171-175: the record of epoch index e under learning rate rate
EpochRecord(e, rate) == [kind |-> "epoch", epoch |-> e, lr |-> rate]

\* lines 160-175: the epoch's line on stdout, the reconstruction grid of the first
\* validation batch, and the epoch's record
LogEpoch ==
    /\ pc = "log"
    /\ IF Len(train_loss) = 0
       THEN /\ Raise("ZeroDivisionError")
            /\ UNCHANGED <<fwd, files, metrics>>
       ELSE /\ fwd' = Forward("epoch_vis")
            /\ files' = files \cup {[name |-> "recons_epoch", n |-> i]}
            /\ metrics' = Append(metrics, EpochRecord(i, lr))
            /\ pc' = "ckpt"
            /\ UNCHANGED error
    /\ UNCHANGED <<config, world, disk, i, nets, grad_enabled, optim, rest, lists,
                   saves, sums>>

CheckpointDueZeroBased(e, period) == e % period = 0

\* line 177: whether epoch index e ends with a checkpoint
CheckpointDue(e, period) == (e + 1) % period = 0

\* lines 177-178 and the loop's increment
Checkpoint ==
    /\ pc = "ckpt"
    /\ IF CheckpointDue(i, config.ckpt_period)
       THEN /\ disk' = [t \in DOMAIN disk \cup {i + 1} |->
                            IF t = i + 1 THEN encoder ELSE disk[t]]
            /\ saves' = Append(saves, i + 1)
       ELSE UNCHANGED <<disk, saves>>
    /\ i' = i + 1
    /\ pc' = "for"
    /\ UNCHANGED <<config, world, error, nets, grad_enabled, optim, rest, lists,
                   metrics, files, fwd, sums>>

\* line 155: range(config.epochs) is exhausted and main() returns
Finish ==
    /\ pc = "for"
    /\ i >= config.epochs
    /\ pc' = "done"
    /\ UNCHANGED <<config, world, disk, error, i, nets, grad_enabled, optim, rest,
                   lists, sinks, fwd, sums>>

\* -------------------------------------------------------------- inference
\* the distances of one sample's reconstruction: stand-ins, distinct per sample
SampleL1(s) == s
SampleL2(s) == s * s

\* x / n for a float x and a length n # 0
Div(x, n) == IF x.nan THEN NonFinite ELSE [nan |-> FALSE, num |-> x.num, den |-> x.den * n]

\* acc += loss(out, x, reduction="sum").item() over one batch: f holds the
\* distance of every sample
Accumulate(acc, f, batch) ==
    IF acc.nan \/ encoder.nan THEN NonFinite ELSE Fin(acc.num + SumOver(f, batch))

Count(counts, batch) == [s \in DOMAIN counts |-> IF s \in batch THEN counts[s] + 1 ELSE counts[s]]

\* line 122: the encoder is replaced by the one pickled as ckpt100.pth
LoadCheckpoint ==
    /\ pc = "load_ckpt"
    /\ IF InferTag \in DOMAIN disk
       THEN /\ encoder' = disk[InferTag]
            /\ pc' = "vis_known"
            /\ UNCHANGED error
       ELSE /\ Raise("FileNotFoundError")
            /\ UNCHANGED encoder
    /\ UNCHANGED <<config, world, disk, i, generator, freezes, grad_enabled, optim,
                   rest, lists, sinks, fwd, sums>>

\* the ways a shuffling loader over n samples fails before it serves a batch:
\* refused when built, or exhausted at vis()'s next(iter(dataloader))
EmptyLoader(n) == IF n = 0 THEN {"ValueError", "StopIteration"} ELSE {""}

\* lines 124-127 and 59-64: the loader of the known split, its reconstruction
\* grid, and the two sums set to 0.0
VisKnown ==
    /\ pc = "vis_known"
    /\ \E e \in EmptyLoader(data.val) :
          IF e # ""
          THEN /\ Raise(e)
               /\ UNCHANGED <<fwd, files, dist, rest>>
          ELSE /\ fwd' = Forward("vis")
               /\ files' = files \cup {[name |-> "known_recons", n |-> 0]}
               /\ dist' = [dist EXCEPT !.known_l1 = Fin(0), !.known_l2 = Fin(0)]
               /\ rest' = 1..data.val
               /\ pc' = "known"
               /\ UNCHANGED error
    /\ UNCHANGED <<config, world, disk, i, nets, grad_enabled, optim, lists, metrics,
                   saves, served>>

\* lines 128-131: one batch of the known split
KnownBatch ==
    /\ pc = "known"
    /\ LoaderHasNext(rest, config.batch_size)
    /\ \E batch \in Batches(rest, config.batch_size, TRUE) :
       \E raised \in IF env.faults THEN BOOLEAN ELSE {FALSE} :
          IF raised
          THEN /\ Raise("RuntimeError")
               /\ UNCHANGED <<rest, fwd, dist, served>>
          ELSE /\ rest' = rest \ batch
               /\ fwd' = Forward("known")
               /\ dist' = [dist EXCEPT
                    !.known_l1 = Accumulate(@, [s \in batch |-> SampleL1(s)], batch),
                    !.known_l2 = Accumulate(@, [s \in batch |-> SampleL2(s)], batch)]
               /\ served' = [served EXCEPT !.known = Count(@, batch)]
               /\ UNCHANGED <<pc, error>>
    /\ UNCHANGED <<config, world, disk, i, nets, grad_enabled, optim, lists, sinks>>

\* lines 133-137: the unknown split, its loader, its grid, its two sums
VisUnk ==
    /\ pc = "known"
    /\ ~LoaderHasNext(rest, config.batch_size)
    /\ \E e \in EmptyLoader(data.unk) :
          IF e # ""
          THEN /\ Raise(e)
               /\ UNCHANGED <<fwd, files, dist, rest>>
          ELSE /\ fwd' = Forward("vis")
               /\ files' = files \cup {[name |-> "unk_recons", n |-> 0]}
               /\ dist' = [dist EXCEPT !.unk_l1 = Fin(0), !.unk_l2 = Fin(0)]
               /\ rest' = 1..data.unk
               /\ pc' = "unk"
               /\ UNCHANGED error
    /\ UNCHANGED <<config, world, disk, i, nets, grad_enabled, optim, lists, metrics,
                   saves, served>>

\* lines 138-141: one batch of the unknown split
UnkBatch ==
    /\ pc = "unk"
    /\ LoaderHasNext(rest, config.batch_size)
    /\ \E batch \in Batches(rest, config.batch_size, TRUE) :
       \E raised \in IF env.faults THEN BOOLEAN ELSE {FALSE} :
          IF raised
          THEN /\ Raise("RuntimeError")
               /\ UNCHANGED <<rest, fwd, dist, served>>
          ELSE /\ rest' = rest \ batch
               /\ fwd' = Forward("unk")
               /\ dist' = [dist EXCEPT
                    !.unk_l1 = Accumulate(@, [s \in batch |-> SampleL1(s)], batch),
                    !.unk_l2 = Accumulate(@, [s \in batch |-> SampleL2(s)], batch)]
               /\ served' = [served EXCEPT !.unk = Count(@, batch)]
               /\ UNCHANGED <<pc, error>>
    /\ UNCHANGED <<config, world, disk, i, nets, grad_enabled, optim, lists, sinks>>

\* lines 144-150: the one record of an inference-only run, then return
LogDistances ==
    /\ pc = "unk"
    /\ ~LoaderHasNext(rest, config.batch_size)
    /\ metrics' = Append(metrics,
            [kind |-> "distances",
             known_l1 |-> dist.known_l1, unk_l1 |-> dist.unk_l1,
             known_mean_l1 |-> Div(dist.known_l1, data.val),
             unk_mean_l1 |-> Div(dist.unk_l1, data.unk),
             known_l2 |-> dist.known_l2, unk_l2 |-> dist.unk_l2,
             known_mean_l2 |-> Div(dist.known_l2, data.val),
             unk_mean_l2 |-> Div(dist.unk_l2, data.unk)])
    /\ pc' = "done"
    /\ UNCHANGED <<config, world, disk, error, i, nets, grad_enabled, optim, rest,
                   lists, files, saves, fwd, sums>>

\* lines 67-82, with "vis_only" set: after a training run has returned, the script
\* is started again as an inference-only run over the same directories
Relaunch ==
    /\ pc = "done"
    /\ ~config.vis_only
    /\ config' = [config EXCEPT !.vis_only = TRUE]
    /\ pc' = "start"
    /\ i' = 0
    /\ encoder' = NewEncoder
    /\ generator' = NewGenerator
    /\ freezes' = 0
    /\ lr' = 0
    /\ scheduler' = NewScheduler
    /\ rest' = {}
    /\ train_loss' = <<>>
    /\ eval_losses' = <<>>
    /\ val_loss' = Fin(0)
    /\ metrics' = <<>>
    /\ saves' = <<>>
    /\ fwd' = {}
    /\ run_atleast' = 0
    /\ run_morethan' = 0
    /\ UNCHANGED <<world, disk, error, grad_enabled, files, sums>>

NextTrain ==
    \/ Prepare
    \/ LoadModel
    \/ Freeze
    \/ BuildOptimizer
    \/ TrainBegin
    \/ TrainBatch
    \/ EvalBegin
    \/ EvalBatch
    \/ EvalReturn
    \/ SchedulerStep
    \/ LogEpoch
    \/ Checkpoint
    \/ Finish

SpecSched == InitSched /\ [][NextTrain]_vars

\* main() is one thread that runs until it returns or raises
SpecOrder == InitOrder /\ [][NextTrain]_vars /\ WF_vars(NextTrain)

Next ==
    \/ Prepare
    \/ LoadModel
    \/ Freeze
    \/ BuildOptimizer
    \/ TrainBegin
    \/ TrainBatch
    \/ EvalBegin
    \/ EvalBatch
    \/ EvalReturn
    \/ SchedulerStep
    \/ LogEpoch
    \/ Checkpoint
    \/ Finish
    \/ Relaunch
    \/ LoadCheckpoint
    \/ VisKnown
    \/ KnownBatch
    \/ VisUnk
    \/ UnkBatch
    \/ LogDistances

Spec == Init /\ [][Next]_vars

SpecLong == InitLong /\ [][Next]_vars

\* ================================================================= claims
TrainingRun == ~config.vis_only
InferenceRun == config.vis_only

\* the batches of one training epoch
BatchesPerEpoch == (data.train + config.batch_size - 1) \div config.batch_size

\* the 1-based epochs up to n that end with a checkpoint under period p
Due(n, p) == {e \in 1..n : e % p = 0}

\* C1: a training run writes a checkpoint at the end of exactly the epochs whose
\* 1-based number n satisfies n mod ckpt_period = 0, each once and tagged n, holding
\* the encoder as that epoch left it; a completed run has done so for 1..epochs,
\* and with ckpt_period = 25 and epochs = 100 the tags are 25, 50, 75, 100.
C1_CheckpointEpochs ==
    TrainingRun =>
        /\ Len(saves) = Cardinality(Due(i, config.ckpt_period))
        /\ \A k \in 1..Len(saves) : saves[k] = k * config.ckpt_period
        /\ DOMAIN disk = Due(i, config.ckpt_period)
        /\ \A n \in DOMAIN disk : disk[n].version = n * BatchesPerEpoch
        /\ pc = "done" => i = config.epochs
        /\ (pc = "done" /\ config.epochs = 100 /\ config.ckpt_period = 25)
              => saves = <<25, 50, 75, 100>>

C1_Witness ==
    /\ TrainingRun
    /\ pc = "done"
    /\ config.epochs = 100
    /\ config.ckpt_period = 25
    /\ saves = <<25, 50, 75, 100>>

Loaded == pc \in {"vis_known", "known", "unk", "done"}

\* C10: an inference-only run loads the checkpoint tagged 100 whatever epochs and
\* ckpt_period were: after a completed training run that checkpoint exists iff
\* epochs >= 100 and 100 mod ckpt_period = 0, and it is the encoder the training
\* run ended with only when epochs = 100; otherwise the inference-only run fails
\* to load or evaluates an earlier snapshot.
C10_InferenceLoadsTag100 ==
    /\ (TrainingRun /\ pc = "done") =>
          /\ 100 \in DOMAIN disk <=> (config.epochs >= 100 /\ 100 % config.ckpt_period = 0)
          /\ 100 \in DOMAIN disk => (disk[100] = encoder <=> config.epochs = 100)
    /\ (InferenceRun /\ Loaded) =>
          /\ 100 \in DOMAIN disk
          /\ encoder = disk[100]
          /\ encoder.version = config.epochs * BatchesPerEpoch <=> config.epochs = 100
    /\ (InferenceRun /\ pc = "failed") =>
          /\ error = "FileNotFoundError"
          /\ ~(config.epochs >= 100 /\ 100 % config.ckpt_period = 0)

C10_Witness ==
    /\ InferenceRun
    /\ pc = "done"
    /\ config.epochs > 100
    /\ encoder.version = 100 * BatchesPerEpoch
    /\ Len(metrics) = 1

Reduced == lr' # lr

\* C2 as stated: the learning rate is reduced only after patience (10) consecutive
\* epochs whose validation loss did not improve on the best by at least the
\* threshold, a reduction multiplies it by exactly 0.5, and the counter of bad
\* epochs is zero right after a reduction and right after an improvement by at
\* least the threshold.
C2_Original ==
    [][pc = "sched" =>
          /\ Reduced => run_atleast' >= 10
          /\ Reduced => lr' * 2 = lr
          /\ Reduced => scheduler'.num_bad_epochs = 0
          /\ ImprovedAtLeast(val_loss, scheduler.best) => scheduler'.num_bad_epochs = 0
      ]_vars

\* C2 as amended: the same, with an improvement being one by more than the
\* threshold: an epoch whose loss is below the best by exactly the threshold
\* counts as not improving.
C2_SchedulerReduces ==
    [][pc = "sched" =>
          /\ Reduced => run_morethan' >= 10
          /\ Reduced => lr' * 2 = lr
          /\ Reduced => scheduler'.num_bad_epochs = 0
          /\ ImprovedMoreThan(val_loss, scheduler.best) => scheduler'.num_bad_epochs = 0
      ]_vars

C2_Witness ==
    /\ pc = "log"
    /\ lr * 2 = LearningRate
    /\ scheduler.num_bad_epochs = 0
    /\ run_morethan >= 10

\* C7: a training run goes, for each epoch e = 0 .. epochs-1 in increasing order,
\* through training, validation, the scheduler step, logging and checkpointing, in
\* that order and once each, and then is done; the scheduler has stepped e+1 times
\* when epoch e is logged, and the record of epoch e carries the learning rate the
\* scheduler left after epoch e's validation loss.
C7_PhaseOrder ==
    /\ [][/\ pc = "for" => IF i < config.epochs THEN pc' = "train" /\ i' = i
                           ELSE pc' = "done" /\ i' = i
          /\ pc = "train" => pc' \in {"train", "eval"} /\ i' = i
          /\ pc = "eval" => pc' \in {"eval", "sched"} /\ i' = i
          /\ pc = "sched" => /\ pc' = "log" /\ i' = i
                             /\ scheduler'.last_epoch = i + 1
                             /\ Len(metrics) = i
          /\ pc = "log" => /\ pc' = "ckpt" /\ i' = i
                           /\ scheduler.last_epoch = i + 1
                           /\ metrics' = Append(metrics,
                                  [kind |-> "epoch", epoch |-> i, lr |-> lr])
          /\ pc = "ckpt" => pc' = "for" /\ i' = i + 1
          /\ pc = "done" => FALSE
         ]_vars
    /\ [](pc \in {"train", "eval", "sched"} => scheduler.last_epoch = i /\ Len(metrics) = i)
    /\ [](pc = "done" => i = config.epochs /\ Len(metrics) = i /\ scheduler.last_epoch = i)
    /\ <>(pc = "done")

C7_Witness ==
    /\ pc = "done"
    /\ \E e \in 1..(Len(metrics) - 1) :
          /\ metrics[e].lr = LearningRate
          /\ metrics[e + 1].lr * 2 = LearningRate
          /\ metrics[e + 1].epoch = e

\* the sums of SampleL1 and of SampleL2 over the samples 1..n
SumL1(n) == (n * (n + 1)) \div 2
SumL2(n) == (n * (n + 1) * (2 * n + 1)) \div 6

AllServedOnce(counts) == \A s \in DOMAIN counts : counts[s] = 1

\* C3: the record of a completed inference-only run reports, for the known and for
\* the unknown split, L1 and L2 sums that cover every sample of the split exactly
\* once, and means equal to those sums divided by the split's number of samples,
\* whatever the batch size, a partial last batch included.
C3_MeansAreSumsOverCount ==
    (InferenceRun /\ pc = "done") =>
        /\ Len(metrics) = 1
        /\ AllServedOnce(served.known) /\ DOMAIN served.known = 1..data.val
        /\ AllServedOnce(served.unk) /\ DOMAIN served.unk = 1..data.unk
        /\ LET r == metrics[1]
           IN  /\ r.known_l1 = Fin(SumL1(data.val))
               /\ r.known_l2 = Fin(SumL2(data.val))
               /\ r.unk_l1 = Fin(SumL1(data.unk))
               /\ r.unk_l2 = Fin(SumL2(data.unk))
               /\ r.known_mean_l1 = [nan |-> FALSE, num |-> r.known_l1.num, den |-> data.val]
               /\ r.known_mean_l2 = [nan |-> FALSE, num |-> r.known_l2.num, den |-> data.val]
               /\ r.unk_mean_l1 = [nan |-> FALSE, num |-> r.unk_l1.num, den |-> data.unk]
               /\ r.unk_mean_l2 = [nan |-> FALSE, num |-> r.unk_l2.num, den |-> data.unk]

C3_Witness ==
    /\ InferenceRun
    /\ pc = "done"
    /\ data.val > config.batch_size
    /\ data.val % config.batch_size # 0
    /\ data.unk % config.batch_size # 0
    /\ Len(metrics) = 1

\* C4: when the validation split is empty, the evaluation of a training run ends
\* the run with an EmptySplitError, not with a division by zero.
C4_EmptySplitError ==
    (TrainingRun /\ data.val = 0 /\ pc = "failed" /\ ~encoder.training)
        => error = "EmptySplitError"

\* C5: G's and D's parameters stop requiring gradients once, in the step that
\* follows their loading, and never require them again; G's parameters never
\* change after loading; the encoder's parameters change only in the optimizer
\* step of the training pass (or by being replaced when a checkpoint is loaded):
\* validation, the reconstruction grids and the distance sums leave them alone.
C5_FrozenAndEncoderFrame ==
    /\ [](freezes <= 1)
    /\ [](~generator.loaded => freezes = 0)
    /\ []((generator.loaded /\ pc # "freeze") => (freezes = 1 /\ ~generator.requires_grad))
    /\ [][/\ pc = "load_model" => pc' = "freeze"
          /\ pc = "freeze" => (freezes' = 1 /\ ~generator'.requires_grad)
          /\ (generator.loaded /\ generator'.loaded) =>
                (generator'.version = generator.version /\ generator'.nan = generator.nan)
          /\ (encoder'.version # encoder.version \/ encoder'.nan # encoder.nan) =>
                (pc = "train" \/ pc = "load_ckpt" \/ pc' = "start")
          /\ pc \in {"eval", "sched", "log", "ckpt", "vis_known", "known", "unk"} =>
                (encoder'.version = encoder.version /\ encoder'.nan = encoder.nan)
         ]_vars

C5_Witness ==
    /\ TrainingRun
    /\ pc = "done"
    /\ encoder.version > 0
    /\ generator.version = 0
    /\ freezes = 1
    /\ [site |-> "eval", grad |-> FALSE] \in fwd
    /\ \E g \in BOOLEAN : [site |-> "epoch_vis", grad |-> g] \in fwd

\* C6: every forward pass of the inference-only distance evaluation, over the
\* known and over the unknown split, runs with gradient tracking disabled.
C6_DistancesWithoutGrad ==
    \A f \in fwd : f.site \in {"known", "unk"} => ~f.grad

NonFiniteSeen == (\E k \in 1..Len(train_loss) : train_loss[k].nan) \/ val_loss.nan

\* C8: once a training batch's loss or an epoch's validation loss is non-finite,
\* no further optimizer step is applied and no metrics record or checkpoint is
\* written.
C8_NonFiniteIsFatal ==
    [][(TrainingRun /\ NonFiniteSeen /\ pc # "done") =>
          /\ encoder'.version = encoder.version
          /\ metrics' = metrics
          /\ saves' = saves
      ]_vars

\* C9: a training run that fails in epoch i has written exactly the records of the
\* epochs 0 .. i-1, no checkpoint tagged above i and no image of epoch i; an
\* inference-only run writes no checkpoint, and its one record, of the eight
\* distance scalars, only once both splits are evaluated: none if it fails.
C9_NoPartialWrites ==
    /\ (TrainingRun /\ pc = "failed") =>
          /\ Len(metrics) = i
          /\ \A k \in 1..Len(metrics) : metrics[k].kind = "epoch" /\ metrics[k].epoch = k - 1
          /\ \A k \in 1..Len(saves) : saves[k] <= i
          /\ [name |-> "recons_epoch", n |-> i] \notin files
    /\ InferenceRun =>
          /\ saves = <<>>
          /\ IF pc = "done"
             THEN /\ Len(metrics) = 1
                  /\ metrics[1].kind = "distances"
                  /\ DOMAIN metrics[1] = {"kind", "known_l1", "unk_l1", "known_mean_l1",
                                          "unk_mean_l1", "known_l2", "unk_l2",
                                          "known_mean_l2", "unk_mean_l2"}
                  /\ AllServedOnce(served.known)
                  /\ AllServedOnce(served.unk)
             ELSE metrics = <<>>

C9_Witness ==
    /\ TrainingRun
    /\ pc = "failed"
    /\ error = "RuntimeError"
    /\ i >= 1
    /\ Len(metrics) = i
    /\ Len(saves) >= 1

====
